---- MODULE Spec2Model ----
(***************************************************************************)
(* typed_els: conversion of an Elasticsearch mapping into TypeScript       *)
(* interfaces.  Strings that the program inspects character by character   *)
(* (interface names, field names) are sequences of one-character strings;  *)
(* strings it only compares or copies (ELS datatypes, TS type literals)    *)
(* are TLA+ strings.  An optional value (dict.get) is a sequence of length *)
(* 0 (None) or 1.                                                          *)
(***************************************************************************)
EXTENDS FiniteSets, Integers, Sequences, TLC

VARIABLES pc, rootName, topShape, stack, used, out, warnings, blocks,
          allocs, visited, fieldsRead, lastOp, fnIn, fnOut

vars == <<pc, rootName, topShape, stack, used, out, warnings, blocks,
          allocs, visited, fieldsRead, lastOp, fnIn, fnOut>>

\* ---------------------------------------------------------------- bounds
MaxFields == 3
MaxDepth == 3
MaxNameLen == 3
MaxIdx == 10

\* ------------------------------------------------------------ characters
Digits == <<"0", "1", "2", "3", "4", "5", "6", "7", "8", "9">>

Lower == {"a", "b", "c", "d", "e", "f", "g", "h", "i", "j", "k", "l", "m",
          "n", "o", "p", "q", "r", "s", "t", "u", "v", "w", "x", "y", "z"}

Upper == {"A", "B", "C", "D", "E", "F", "G", "H", "I", "J", "K", "L", "M",
          "N", "O", "P", "Q", "R", "S", "T", "U", "V", "W", "X", "Y", "Z"}

\* \w under re.ASCII
WordChars == Lower \cup Upper \cup {Digits[i] : i \in 1..10} \cup {"_"}

\* code-point order of the characters that occur in names
Ascii == <<"$", "-", ".",
           "0", "1", "2", "3", "4", "5", "6", "7", "8", "9",
           "A", "B", "C", "D", "E", "F", "G", "H", "I", "J", "K", "L", "M",
           "N", "O", "P", "Q", "R", "S", "T", "U", "V", "W", "X", "Y", "Z",
           "_",
           "a", "b", "c", "d", "e", "f", "g", "h", "i", "j", "k", "l", "m",
           "n", "o", "p", "q", "r", "s", "t", "u", "v", "w", "x", "y", "z">>

Ord(c) == CHOOSE i \in DOMAIN Ascii : Ascii[i] = c

\* ------------------------------------------------------- module constants
_GEO_POINT_TYPE == "{lat: number, lon: number}"

_GEO_SHAPE_TYPE == "{coordinates: number[], type: 'Point'} | {coordinates: number[][], type: 'MultiPoint'} | {coordinates: number[][], type: 'LineString'} | {coordinates: number[][][], type: 'MultiLineString'} | {coordinates: number[][], type: 'Polygon'} | {coordinates: number[][][][], type: 'MultiPolygon'} | {coordinates: number[][], type: 'Envelope'} | {coordinates: number[], radius: string | number, type: 'Circle'} | {geometries: any[], type: 'GeometryCollection'}"

_TYPE_MAPPINGS ==
    [byte |-> "number", date |-> "number", float |-> "number",
     integer |-> "number", double |-> "number", long |-> "number",
     short |-> "number", half_float |-> "number", scaled_float |-> "number",
     object |-> "{[key: string]: any}",
     binary |-> "string", ip |-> "string", keyword |-> "string",
     string |-> "string", text |-> "string",
     boolean |-> "boolean",
     geo_point |-> _GEO_POINT_TYPE, geo_shape |-> _GEO_SHAPE_TYPE]

_RESERVED_KEYWORDS == {
        <<"b", "r", "e", "a", "k">>,
        <<"c", "a", "s", "e">>,
        <<"c", "a", "t", "c", "h">>,
        <<"c", "l", "a", "s", "s">>,
        <<"c", "o", "n", "s", "t">>,
        <<"c", "o", "n", "t", "i", "n", "u", "e">>,
        <<"d", "e", "b", "u", "g", "g", "e", "r">>,
        <<"d", "e", "f", "a", "u", "l", "t">>,
        <<"d", "e", "l", "e", "t", "e">>,
        <<"d", "o">>,
        <<"e", "l", "s", "e">>,
        <<"e", "n", "u", "m">>,
        <<"e", "x", "p", "o", "r", "t">>,
        <<"e", "x", "t", "e", "n", "d", "s">>,
        <<"f", "a", "l", "s", "e">>,
        <<"f", "i", "n", "a", "l", "l", "y">>,
        <<"f", "o", "r">>,
        <<"f", "u", "n", "c", "t", "i", "o", "n">>,
        <<"i", "f">>,
        <<"i", "m", "p", "o", "r", "t">>,
        <<"i", "n">>,
        <<"i", "n", "s", "t", "a", "n", "c", "e", "o", "f">>,
        <<"n", "e", "w">>,
        <<"n", "u", "l", "l">>,
        <<"r", "e", "t", "u", "r", "n">>,
        <<"s", "u", "p", "e", "r">>,
        <<"s", "w", "i", "t", "c", "h">>,
        <<"t", "h", "i", "s">>,
        <<"t", "h", "r", "o", "w">>,
        <<"t", "r", "u", "e">>,
        <<"t", "r", "y">>,
        <<"t", "y", "p", "e", "o", "f">>,
        <<"v", "a", "r">>,
        <<"v", "o", "i", "d">>,
        <<"w", "h", "i", "l", "e">>,
        <<"w", "i", "t", "h">>,
        <<"a", "s">>,
        <<"i", "m", "p", "l", "e", "m", "e", "n", "t", "s">>,
        <<"i", "n", "t", "e", "r", "f", "a", "c", "e">>,
        <<"l", "e", "t">>,
        <<"p", "a", "c", "k", "a", "g", "e">>,
        <<"p", "r", "i", "v", "a", "t", "e">>,
        <<"p", "r", "o", "t", "e", "c", "t", "e", "d">>,
        <<"p", "u", "b", "l", "i", "c">>,
        <<"s", "t", "a", "t", "i", "c">>,
        <<"y", "i", "e", "l", "d">>,
        <<"a", "n", "y">>,
        <<"b", "o", "o", "l", "e", "a", "n">>,
        <<"c", "o", "n", "s", "t", "r", "u", "c", "t", "o", "r">>,
        <<"d", "e", "c", "l", "a", "r", "e">>,
        <<"f", "r", "o", "m">>,
        <<"g", "e", "t">>,
        <<"m", "o", "d", "u", "l", "e">>,
        <<"n", "u", "m", "b", "e", "r">>,
        <<"o", "f">>,
        <<"r", "e", "q", "u", "i", "r", "e">>,
        <<"s", "e", "t">>,
        <<"s", "t", "r", "i", "n", "g">>,
        <<"s", "y", "m", "b", "o", "l">>,
        <<"t", "y", "p", "e">>,
        <<"o", "b", "j", "e", "c", "t">>
    }

\* character classes of _INTERFACE_NAME_1 and the complement of
\* _INTERFACE_NAME_INVALID
_INTERFACE_NAME_1 == WordChars \cup {"$"}

_INTERFACE_NAME_INVALID(c) == c \notin WordChars /\ c # "$"

\* re.fullmatch(_INTERFACE_NAME, s): (\w|\$)(\w|\d|\$)*
_INTERFACE_NAME(s) ==
    /\ Len(s) >= 1
    /\ s[1] \in WordChars \cup {"$"}
    /\ \A i \in 2..Len(s) : s[i] \in WordChars \cup {Digits[d] : d \in 1..10} \cup {"$"}

\* ------------------------------------------------- normalize_interface_name
\* str.replace(old, new, 1): the first occurrence of the character old
RECURSIVE ReplaceFirst(_, _, _)
ReplaceFirst(s, old, new) ==
    IF s = <<>> THEN <<>>
    ELSE IF Head(s) = old THEN <<new>> \o Tail(s)
    ELSE <<Head(s)>> \o ReplaceFirst(Tail(s), old, new)

\* re.sub(_INTERFACE_NAME_INVALID, '_', name)
SubInvalid(s) ==
    [i \in 1..Len(s) |-> IF _INTERFACE_NAME_INVALID(s[i]) THEN "_" ELSE s[i]]

normalize_no_keyword_escape(name) ==
    IF name = <<>> THEN <<"_">>
    ELSE LET n1 == IF name[1] \notin _INTERFACE_NAME_1
                   THEN ReplaceFirst(name, name[1], "_") ELSE name
         IN  SubInvalid(n1)

normalize_first_only(name) ==
    IF name = <<>> THEN <<"_">>
    ELSE LET n1 == IF name[1] \notin _INTERFACE_NAME_1
                   THEN ReplaceFirst(name, name[1], "_") ELSE name
         IN  IF n1 \in _RESERVED_KEYWORDS THEN n1 \o <<"_">> ELSE n1

normalize_interface_name(name) ==
    IF name = <<>> THEN <<"_">>
    ELSE LET n1 == IF name[1] \notin _INTERFACE_NAME_1
                   THEN ReplaceFirst(name, name[1], "_") ELSE name
             n2 == SubInvalid(n1)
         IN  IF n2 \in _RESERVED_KEYWORDS THEN n2 \o <<"_">> ELSE n2

\* ------------------------------------------------------- new_interface_name
\* '{idx}'.format: decimal digits of a non-negative integer
RECURSIVE ToDecimal(_)
ToDecimal(n) ==
    IF n < 10 THEN <<Digits[n + 1]>>
    ELSE ToDecimal(n \div 10) \o <<Digits[(n % 10) + 1]>>

\* '{interface}_{idx}'.format
Suffixed(interface, idx) == interface \o <<"_">> \o ToDecimal(idx)

\* the while loop: new_interface is the name under test, idx the next suffix
RECURSIVE Probe(_, _, _, _)
Probe(new_interface, idx, interface, used_interface_names) ==
    IF new_interface \in used_interface_names
    THEN Probe(Suffixed(interface, idx), idx + 1, interface, used_interface_names)
    ELSE new_interface

new_interface_name_no_probe(interface, used_interface_names) ==
    [name |-> interface,
     used |-> used_interface_names \cup {interface}]

new_interface_name_no_add(interface, used_interface_names) ==
    [name |-> Probe(interface, 1, interface, used_interface_names),
     used |-> used_interface_names]

new_interface_name_from_2(interface, used_interface_names) ==
    LET n == Probe(interface, 2, interface, used_interface_names)
    IN  [name |-> n, used |-> used_interface_names \cup {n}]

\* returns the name and the set as the call leaves it
new_interface_name(interface, used_interface_names) ==
    LET n == Probe(interface, 1, interface, used_interface_names)
    IN  [name |-> n, used |-> used_interface_names \cup {n}]

\* ------------------------------------------------------------ TypedProperty
\* the comment field (json.dumps of the definition, never empty) is carried
\* through to the printer only and is left out of the record
TypedProperty(interface, property, type) ==
    [interface |-> interface, property |-> property, type |-> type]

\* ------------------------------------------------ generate_typed_properties
Separator == "$"

\* '{interface}${property}'.format
inner_interface_name(interface, property) ==
    interface \o <<Separator>> \o property

ref_type_no_union(inner_interface) ==
    inner_interface \o <<"[]">>

\* '{interface} | {interface}[]'.format
ref_type(inner_interface) ==
    inner_interface \o <<" | ">> \o inner_interface \o <<"[]">>

Warning(datatype) ==
    <<"Unable to find the corresponding TS type for ELS datatype ", datatype>>

\* Python truth value of definition.get('type'): None and '' are false
Truthy(opt) == opt # <<>> /\ opt[1] # ""

\* _TYPE_MAPPINGS.get(datatype)
TypeLookup(datatype) ==
    IF datatype # <<>> /\ datatype[1] \in DOMAIN _TYPE_MAPPINGS
    THEN <<_TYPE_MAPPINGS[datatype[1]]>>
    ELSE <<>>

leaf_property_silent(interface, property, definition) ==
    LET datatype == definition.type
        type     == TypeLookup(datatype)
    IN  IF Truthy(type)
        THEN [out |-> <<TypedProperty(interface, property, type)>>, warn |-> <<>>]
        ELSE [out |-> <<>>, warn |-> <<>>]

\* the else branch of the loop body: records yielded and warnings logged
leaf_property(interface, property, definition) ==
    LET datatype == definition.type
        type     == TypeLookup(datatype)
    IN  IF Truthy(type)
        THEN [out |-> <<TypedProperty(interface, property, type)>>, warn |-> <<>>]
        ELSE IF Truthy(datatype)
        THEN [out  |-> <<TypedProperty(interface, property, <<"any">>)>>,
              warn |-> <<Warning(datatype[1])>>]
        ELSE [out |-> <<>>, warn |-> <<>>]

\* --------------------------------------------------- print_typed_properties
RECURSIVE StrLess(_, _)
StrLess(a, b) ==
    IF b = <<>> THEN FALSE
    ELSE IF a = <<>> THEN TRUE
    ELSE IF Head(a) = Head(b) THEN StrLess(Tail(a), Tail(b))
    ELSE Ord(Head(a)) < Ord(Head(b))

\* sorted(..., key=lambda tp: tp.interface) is stable
InsertSorted(s, x) ==
    LET n == Cardinality({i \in DOMAIN s : ~StrLess(x.interface, s[i].interface)})
    IN  SubSeq(s, 1, n) \o <<x>> \o SubSeq(s, n + 1, Len(s))

RECURSIVE Sorted(_)
Sorted(s) ==
    IF s = <<>> THEN <<>>
    ELSE InsertSorted(Sorted(SubSeq(s, 1, Len(s) - 1)), s[Len(s)])

RECURSIVE RunLen(_, _)
RunLen(s, key) ==
    IF s = <<>> \/ s[1].interface # key THEN 0
    ELSE 1 + RunLen(Tail(s), key)

\* itertools.groupby over the sorted records: one block per run of equal keys
RECURSIVE GroupBy(_)
GroupBy(s) ==
    IF s = <<>> THEN <<>>
    ELSE LET n == RunLen(s, s[1].interface)
         IN  <<[interface |-> s[1].interface, properties |-> SubSeq(s, 1, n)]>>
             \o GroupBy(SubSeq(s, n + 1, Len(s)))

print_typed_properties(typed_properties) ==
    GroupBy(Sorted(typed_properties))

\* ------------------------------------------------------------------ inputs
Root == <<"R", "o", "o", "t">>

RootNames == {Root, <<"d", "o">>}

\* keys of a JSON object; within one object they are distinct
FieldNames == {<<>>, <<"_">>, <<".">>, <<"_", "_", "1">>, <<"_", "$", "_">>}

\* a field definition: whether it has the key 'properties', and its 'type'
Definitions ==
    {d \in [properties : BOOLEAN, type : {<<>>, <<"long">>, <<"nested">>, <<"">>}] :
        d.properties => d.type = <<>>}

\* the mapping argument of search_typed_properties: not a dict, a dict with
\* the key 'properties', a dict without it
Shapes == {"other", "properties", "keys"}

\* ------------------------------------------------------------------- state
Frame(kind, interface, property) ==
    [kind |-> kind, interface |-> interface, property |-> property, seen |-> {}]

Top == stack[Len(stack)]

Pop == SubSeq(stack, 1, Len(stack) - 1)

See(name) == [stack EXCEPT ![Len(stack)].seen = @ \cup {name}]

GenPath(stk) == SelectSeq(stk, LAMBDA f : f.kind = "gen")

IdleFn == fnIn = <<>> /\ fnOut = <<>>

Init ==
    /\ pc = "start"
    /\ rootName \in RootNames
    /\ topShape = "none"
    /\ stack = <<>>
    /\ used = {}
    /\ out = <<>>
    /\ warnings = <<>>
    /\ blocks = <<>>
    /\ allocs = <<>>
    /\ visited = <<>>
    /\ fieldsRead = 0
    /\ lastOp = "none"
    /\ IdleFn

\* entry of generate_typed_properties called from a frame stack stk: the
\* assertion, then the loop over properties.items()
generate_typed_properties(interface, property, stk) ==
    IF _INTERFACE_NAME(interface)
    THEN /\ stack' = Append(stk, Frame("gen", interface, property))
         /\ pc' = "walk"
    ELSE /\ stack' = stk
         /\ pc' = "AssertionError"

\* search_typed_properties(type, mapping, used_interface_names)
search_typed_properties(type, shape, stk) ==
    IF shape = "properties"
    THEN LET candidate == normalize_interface_name(type)
             r == new_interface_name(candidate, used)
         IN  /\ used' = r.used
             /\ allocs' = Append(allocs,
                    [outer |-> <<>>, property |-> type, raw |-> type,
                     candidate |-> candidate, usedBefore |-> used,
                     result |-> r.name, path |-> <<>>])
             /\ generate_typed_properties(r.name, type, stk)
    ELSE /\ stack' = IF shape = "keys"
                     THEN Append(stk, Frame("search", <<>>, type))
                     ELSE stk
         /\ pc' = IF stack' = <<>> THEN "walked" ELSE "walk"
         /\ UNCHANGED <<used, allocs>>

\* command: search_typed_properties(interface, mapping)
Start ==
    /\ pc = "start"
    /\ \E shape \in Shapes :
          /\ topShape' = shape
          /\ search_typed_properties(rootName, shape, <<>>)
    /\ lastOp' = "Start"
    /\ UNCHANGED <<rootName, out, warnings, blocks, visited, fieldsRead, fnIn, fnOut>>

\* one iteration of `for key, value in mapping.items()`
SearchItem ==
    /\ pc = "walk"
    /\ stack # <<>>
    /\ Top.kind = "search"
    /\ fieldsRead < MaxFields
    /\ \E key \in FieldNames \ Top.seen, shape \in Shapes :
          /\ shape # "other" => Len(stack) < MaxDepth
          /\ search_typed_properties(key, shape, See(key))
    /\ fieldsRead' = fieldsRead + 1
    /\ lastOp' = "SearchItem"
    /\ UNCHANGED <<rootName, topShape, out, warnings, blocks, visited, fnIn, fnOut>>

\* mapping.items() exhausted
SearchReturn ==
    /\ pc = "walk"
    /\ stack # <<>>
    /\ Top.kind = "search"
    /\ stack' = Pop
    /\ pc' = IF Pop = <<>> THEN "walked" ELSE "walk"
    /\ lastOp' = "SearchReturn"
    /\ UNCHANGED <<rootName, topShape, used, out, warnings, blocks, allocs,
                   visited, fieldsRead, fnIn, fnOut>>

\* one iteration of `for property, definition in properties.items()`
GenField ==
    /\ pc = "walk"
    /\ stack # <<>>
    /\ Top.kind = "gen"
    /\ fieldsRead < MaxFields
    /\ \E property \in FieldNames \ Top.seen, definition \in Definitions :
          LET interface == Top.interface IN
          /\ visited' = Append(visited, [interface |-> interface,
                                         property |-> property,
                                         definition |-> definition])
          /\ IF property = <<>>
             THEN /\ stack' = See(property)
                  /\ pc' = "walk"
                  /\ UNCHANGED <<used, allocs, out, warnings>>
             ELSE IF definition.properties
             THEN LET raw == inner_interface_name(interface, property)
                      candidate == normalize_interface_name(raw)
                      r == new_interface_name(candidate, used)
                  IN  /\ Len(stack) < MaxDepth
                      /\ used' = r.used
                      /\ allocs' = Append(allocs,
                             [outer |-> <<interface>>, property |-> property,
                              raw |-> raw, candidate |-> candidate,
                              usedBefore |-> used, result |-> r.name,
                              path |-> [i \in DOMAIN GenPath(stack) |->
                                           GenPath(stack)[i].interface]])
                      /\ generate_typed_properties(r.name, property, See(property))
                      /\ UNCHANGED <<out, warnings>>
             ELSE LET res == leaf_property(interface, property, definition)
                  IN  /\ out' = out \o res.out
                      /\ warnings' = warnings \o res.warn
                      /\ stack' = See(property)
                      /\ pc' = "walk"
                      /\ UNCHANGED <<used, allocs>>
    /\ fieldsRead' = fieldsRead + 1
    /\ lastOp' = "GenField"
    /\ UNCHANGED <<rootName, topShape, blocks, fnIn, fnOut>>

\* properties.items() exhausted: the generator returns; a caller that is
\* itself generate_typed_properties then yields the referencing record
GenReturn ==
    /\ pc = "walk"
    /\ stack # <<>>
    /\ Top.kind = "gen"
    /\ stack' = Pop
    /\ out' = IF Pop # <<>> /\ Pop[Len(Pop)].kind = "gen"
              THEN Append(out, TypedProperty(Pop[Len(Pop)].interface,
                                             Top.property,
                                             ref_type(Top.interface)))
              ELSE out
    /\ pc' = IF Pop = <<>> THEN "walked" ELSE "walk"
    /\ lastOp' = "GenReturn"
    /\ UNCHANGED <<rootName, topShape, used, warnings, blocks, allocs,
                   visited, fieldsRead, fnIn, fnOut>>

\* print_typed_properties consumes the whole record stream
Render ==
    /\ pc = "walked"
    /\ blocks' = print_typed_properties(out)
    /\ pc' = "done"
    /\ lastOp' = "Render"
    /\ UNCHANGED <<rootName, topShape, stack, used, out, warnings, allocs,
                   visited, fieldsRead, fnIn, fnOut>>

Next ==
    \/ Start
    \/ SearchItem
    \/ SearchReturn
    \/ GenField
    \/ GenReturn
    \/ Render

Spec == Init /\ [][Next]_vars

\* ------------------------------------- the two naming functions on their own
NameAlphabet == {"d", "o", "_", "$", "-", "1"}

NameInputs ==
    UNION {[1..k -> NameAlphabet] : k \in 0..MaxNameLen} \cup _RESERVED_KEYWORDS

Hello == <<"h">>

AllocCandidates == {Hello, <<"h", "_", "1">>}

AllocPool == {Hello, <<"x">>} \cup {Suffixed(Hello, k) : k \in 1..MaxIdx}

IdleWalker ==
    /\ rootName = Root
    /\ topShape = "none"
    /\ stack = <<>>
    /\ used = {}
    /\ out = <<>>
    /\ warnings = <<>>
    /\ blocks = <<>>
    /\ allocs = <<>>
    /\ visited = <<>>
    /\ fieldsRead = 0
    /\ lastOp = "none"

walkerVars == <<rootName, topShape, stack, used, out, warnings, blocks,
                allocs, visited, fieldsRead, lastOp>>

InitNormalize ==
    /\ pc = "normalize_call"
    /\ fnIn \in NameInputs
    /\ fnOut = <<>>
    /\ IdleWalker

NormalizeCall ==
    /\ pc = "normalize_call"
    /\ fnOut' = <<normalize_interface_name(fnIn)>>
    /\ pc' = "normalize_ret"
    /\ UNCHANGED <<fnIn, walkerVars>>

SpecNormalize == InitNormalize /\ [][NormalizeCall]_vars

InitAllocate ==
    /\ pc = "allocate_call"
    /\ fnIn \in [interface : AllocCandidates, used : SUBSET AllocPool]
    /\ fnOut = <<>>
    /\ IdleWalker

AllocateCall ==
    /\ pc = "allocate_call"
    /\ fnOut' = <<new_interface_name(fnIn.interface, fnIn.used)>>
    /\ pc' = "allocate_ret"
    /\ UNCHANGED <<fnIn, walkerVars>>

SpecAllocate == InitAllocate /\ [][AllocateCall]_vars

\* ------------------------------------------------------------------ claims
IdentChars == WordChars \cup {"$"}

NestedAllocs == {k \in DOMAIN allocs : allocs[k].outer # <<>>}

\* C1: within one traversal every name returned by new_interface_name, the
\* root's and every nested one's, differs from every other returned name,
\* and the used-names set holds exactly the returned names.
C1_Unique ==
    /\ \A i, j \in DOMAIN allocs :
          i # j => allocs[i].result # allocs[j].result
    /\ used = {allocs[i].result : i \in DOMAIN allocs}

C1_Witness ==
    /\ \E i \in DOMAIN allocs : allocs[i].outer = <<>>
    /\ \E i \in NestedAllocs : allocs[i].result # allocs[i].candidate
    /\ Len(allocs) >= 3

\* C2: new_interface_name(candidate, used) returns candidate when it is not
\* in used, otherwise candidate_k for the smallest k >= 1 with candidate_k
\* not in used; the returned name is added to used and nothing else changes.
C2_Policy ==
    pc = "allocate_ret" =>
        LET c == fnIn.interface
            u == fnIn.used
            r == fnOut[1]
        IN  /\ c \notin u => r.name = c
            /\ c \in u =>
                  \E k \in 1..(Cardinality(u) + 1) :
                      /\ r.name = c \o <<"_">> \o ToDecimal(k)
                      /\ r.name \notin u
                      /\ \A j \in 1..(k - 1) : c \o <<"_">> \o ToDecimal(j) \in u
            /\ r.used = u \cup {r.name}
            /\ (c = Hello /\ u = {}) => r.name = <<"h">>
            /\ (c = Hello /\ u = {<<"h">>, <<"h", "_", "1">>, <<"h", "_", "2">>})
                  => r.name = <<"h", "_", "3">>
            /\ (c = Hello /\ u = {Hello} \cup {Suffixed(Hello, k) : k \in 1..9})
                  => r.name = <<"h", "_", "1", "0">>

C2_Witness ==
    /\ pc = "allocate_ret"
    /\ fnIn.interface = Hello
    /\ fnOut[1].name = <<"h", "_", "1", "0">>

\* number of nested `properties` occurrences read from the input tree
NestedCount == Cardinality({i \in DOMAIN visited : visited[i].definition.properties})

\* C3: the number of interface blocks printed equals 1 + the number of nested
\* `properties` occurrences in the input tree.
C3_Orig ==
    (pc = "done" /\ topShape = "properties") => Len(blocks) = 1 + NestedCount

\* C4: {"properties": {}} with root name Root prints exactly one block, named
\* Root, with no properties.
C4_Orig ==
    (pc = "done" /\ topShape = "properties" /\ rootName = Root /\ visited = <<>>)
        => blocks = <<[interface |-> Root, properties |-> <<>>]>>

\* pairs of sibling nested fields of one interface whose candidates agree
Siblings(i, j) ==
    /\ i \in NestedAllocs
    /\ j \in NestedAllocs
    /\ i < j
    /\ allocs[i].outer = allocs[j].outer
    /\ allocs[i].candidate = allocs[j].candidate

\* the first two siblings with that candidate
FirstTwo(i, j) ==
    /\ Siblings(i, j)
    /\ \A k \in NestedAllocs :
          (k < j /\ Siblings(k, j)) => k = i

LeastFree(X, u, name) ==
    \E k \in 1..(Cardinality(u) + 1) :
        /\ name = X \o <<"_">> \o ToDecimal(k)
        /\ name \notin u
        /\ \A m \in 1..(k - 1) : X \o <<"_">> \o ToDecimal(m) \in u

\* C5 (as stated): of two siblings whose candidates normalize to the same X,
\* the first visited is allocated X and the second X_1.
C5_Orig ==
    \A i, j \in DOMAIN allocs :
        FirstTwo(i, j) =>
            /\ allocs[i].result = allocs[i].candidate
            /\ allocs[j].result = allocs[j].candidate \o <<"_", "1">>

\* C5 (amended): the first sibling is allocated X when X is unused at its
\* visit, the second X_1 when X_1 is unused at its visit; a sibling whose
\* preferred name is taken is allocated X_k for the smallest unused k >= 1.
C5_Amended ==
    \A i, j \in DOMAIN allocs :
        Siblings(i, j) =>
            LET X  == allocs[i].candidate
                ui == allocs[i].usedBefore
                uj == allocs[j].usedBefore
            IN  /\ X \notin ui => allocs[i].result = X
                /\ X \in ui => LeastFree(X, ui, allocs[i].result)
                /\ X \in uj
                /\ (X \o <<"_", "1">>) \notin uj
                      => allocs[j].result = X \o <<"_", "1">>
                /\ LeastFree(X, uj, allocs[j].result)

C5_Witness ==
    \E i, j \in DOMAIN allocs :
        /\ FirstTwo(i, j)
        /\ allocs[i].result = allocs[i].candidate
        /\ allocs[j].result = allocs[j].candidate \o <<"_", "1">>

\* C6: normalize_interface_name returns, for every input, a non-empty string
\* that matches the identifier grammar in full and is not a reserved keyword;
\* a reserved keyword k is mapped to k followed by `_`.
C6_Normalized ==
    pc = "normalize_ret" =>
        LET r == fnOut[1]
        IN  /\ Len(r) >= 1
            /\ r[1] \in IdentChars
            /\ \A i \in 1..Len(r) : r[i] \in IdentChars
            /\ r \notin _RESERVED_KEYWORDS
            /\ fnIn \in _RESERVED_KEYWORDS => r = fnIn \o <<"_">>

C6_Witness ==
    /\ pc = "normalize_ret"
    /\ fnIn = <<"d", "o">>
    /\ fnOut = <<(<<"d", "o", "_">>)>>

OnStack(N) == \E d \in DOMAIN stack : stack[d].kind = "gen" /\ stack[d].interface = N

\* the interface J belongs to the subtree of the interface N
InSubtree(J, N) ==
    \/ J = N
    \/ \E k \in DOMAIN allocs :
          /\ allocs[k].result = J
          /\ \E d \in DOMAIN allocs[k].path : allocs[k].path[d] = N

RecordsOf(I, p) ==
    {r \in DOMAIN out : out[r].interface = I /\ out[r].property = p}

\* C7: a field with a non-empty name and a nested `properties` mapping gets
\* exactly one inner interface name N; every record of N's subtree is emitted
\* before the outer record, and once the subtree is done exactly one record
\* owned by the outer interface is emitted for the field, of type `N | N[]`.
C7_Nested ==
    \A v \in DOMAIN visited :
        (visited[v].property # <<>> /\ visited[v].definition.properties) =>
            LET I == visited[v].interface
                p == visited[v].property
                A == {k \in DOMAIN allocs :
                         allocs[k].outer = <<I>> /\ allocs[k].property = p}
            IN  /\ Cardinality(A) = 1
                /\ \A k \in A :
                      LET N == allocs[k].result
                          R == RecordsOf(I, p)
                      IN  IF OnStack(N)
                          THEN R = {}
                          ELSE /\ Cardinality(R) = 1
                               /\ \A r \in R :
                                     /\ out[r].type = N \o <<" | ">> \o N \o <<"[]">>
                                     /\ \A q \in DOMAIN out :
                                           InSubtree(out[q].interface, N) => q < r

C7_Witness ==
    \E q, r \in DOMAIN out :
        /\ q < r
        /\ \E k \in NestedAllocs :
              /\ out[q].interface = allocs[k].result
              /\ out[r].interface = allocs[k].outer[1]
              /\ out[r].property = allocs[k].property
              /\ out[r].type = allocs[k].result \o <<" | ">> \o allocs[k].result \o <<"[]">>

IsLeafVisit(v) == v.property # <<>> /\ ~v.definition.properties

Mapped(d) == d # <<>> /\ d[1] \in DOMAIN _TYPE_MAPPINGS

UnmappedNonEmpty(d) == d # <<>> /\ d[1] # "" /\ d[1] \notin DOMAIN _TYPE_MAPPINGS

UnmappedPresent(d) == d # <<>> /\ d[1] \notin DOMAIN _TYPE_MAPPINGS

\* the warnings expected when Unmapped tells which leaf types get one
ExpectedWarnings(Unmapped(_)) ==
    LET U == SelectSeq(visited, LAMBDA v : IsLeafVisit(v) /\ Unmapped(v.definition.type))
    IN  [i \in DOMAIN U |->
            <<"Unable to find the corresponding TS type for ELS datatype ",
              U[i].definition.type[1]>>]

LeafOutcome(Unmapped(_)) ==
    /\ \A i \in DOMAIN visited :
          IsLeafVisit(visited[i]) =>
              LET d == visited[i].definition.type
                  R == RecordsOf(visited[i].interface, visited[i].property)
              IN  IF Mapped(d)
                  THEN /\ Cardinality(R) = 1
                       /\ \A r \in R : out[r].type = <<_TYPE_MAPPINGS[d[1]]>>
                       /\ d = <<"long">> => \A r \in R : out[r].type = <<"number">>
                  ELSE IF Unmapped(d)
                  THEN /\ Cardinality(R) = 1
                       /\ \A r \in R : out[r].type = <<"any">>
                  ELSE R = {}
    /\ warnings = ExpectedWarnings(Unmapped)
    /\ (lastOp = "GenField" /\ IsLeafVisit(visited[Len(visited)])) =>
          /\ pc = "walk"
          /\ stack # <<>>
          /\ Top.kind = "gen"
          /\ Top.interface = visited[Len(visited)].interface

C9_AssertHolds ==
    /\ pc # "AssertionError"
    /\ \A d \in DOMAIN stack :
          stack[d].kind = "gen" =>
              /\ Len(stack[d].interface) >= 1
              /\ \A i \in 1..Len(stack[d].interface) :
                    stack[d].interface[i] \in IdentChars

C9_Witness ==
    /\ stack # <<>>
    /\ Top.kind = "gen"
    /\ \E k \in NestedAllocs :
          /\ allocs[k].result = Top.interface
          /\ allocs[k].result # allocs[k].candidate
          /\ allocs[k].candidate # allocs[k].raw

\* C10: the separator between the current interface name and the field name
\* in a synthesized candidate is not an identifier character.
C10_Orig ==
    \A k \in NestedAllocs :
        allocs[k].raw[Len(allocs[k].outer[1]) + 1] \notin IdentChars

====
